---- MODULE Spec2Model ----
(***************************************************************************)
(* Screenshot plugin (src/src/main.c): a global input hook that tracks the *)
(* LOGO (meta) key and, on LOGO+P, writes the PAX framebuffer to           *)
(* /sd/screenshot-YYYYMMDDHHMMSS.ppm as a binary PPM (P6) file.            *)
(*                                                                         *)
(* The plugin's own state is plugin_ctx, hook_id and logo_key_held.  The   *)
(* host (hook registry), the display subsystem, the clock and the          *)
(* filesystem are the environment.  One invocation of input_hook_callback  *)
(* is one action, except that the call of save_screenshot it makes is      *)
(* followed statement by statement (pc), because the claims about the      *)
(* encoder speak of the order and the outcome of its I/O calls.            *)
(***************************************************************************)
EXTENDS Integers, Sequences, FiniteSets, TLC

VARIABLES
    plugin_ctx,      \* main.c:15  "NULL" or the context the host passed to init
    hook_id,         \* main.c:16  handle of the registered hook, -1 when none
    logo_key_held,   \* main.c:17  the modifier flag of the chord detector
    registered,      \* host: handles of this plugin's hooks in the host's registry
    unregistered,    \* host: sequence of the handles passed to ..._hook_unregister
    next_handle,     \* host: the handle the next successful registration gets
    pc,              \* position of the host/callback thread
    event,           \* the event of the callback invocation in progress
    held_on_entry,   \* logo_key_held as that invocation found it
    ret,             \* value the entry point returned ("none" while running)
    buf,             \* save_screenshot: pax_buf_t* buf (NullBuf or a surface)
    width,           \* save_screenshot: int width
    height,          \* save_screenshot: int height
    pixels,          \* save_screenshot: the bytes `pixels` points to, or NullPixels
    filename,        \* save_screenshot: char filename[64], as character codes
    file,            \* save_screenshot: FILE* file: NullFile, or an open stream
    x,               \* save_screenshot: loop variable x
    y,               \* save_screenshot: loop variable y
    fs,              \* filesystem: path -> file contents (sequence of bytes)
    now,             \* wall clock: the struct tm localtime_r fills in
    trace,           \* calls made by the callback invocation in progress
    lastMod,         \* history: kind of the last modifier scancode event
    lastArm,         \* history: last of modifier press / release / capture
    lastEv           \* history: kind of the event delivered before `event`

vars == << plugin_ctx, hook_id, logo_key_held, registered, unregistered,
           next_handle, pc, event, held_on_entry, ret, buf, width, height, pixels, filename,
           file, x, y, fs, now, trace, lastMod, lastArm, lastEv >>

plugin == << plugin_ctx, hook_id, registered, unregistered, next_handle >>
frame  == << buf, width, height, pixels, filename, file, x, y >>
hist   == << lastMod, lastArm, lastEv >>

-----------------------------------------------------------------------------
(* Bounds of the model *)

\* surfaces are at most MaxDim x MaxDim pixels
MaxDim == 2
\* the host hands out the handles 0 .. MaxHandles-1, then registration fails
MaxHandles == 2

-----------------------------------------------------------------------------
(* Program constants, main.c:20-24 *)

BSP_INPUT_SCANCODE_P == 25
BSP_INPUT_SCANCODE_LEFTMETA == 57435
BSP_INPUT_SCANCODE_RIGHTMETA == 57436
BSP_INPUT_SCANCODE_LEFTMETA_REL == 57563
BSP_INPUT_SCANCODE_RIGHTMETA_REL == 57564

\* plugin_ctx
NULL == "NULL"
\* the null pax_buf_t*, const uint8_t* and FILE*
NullBuf    == [null |-> TRUE, width |-> 0, height |-> 0, data |-> << >>]
NullPixels == [null |-> TRUE, bytes |-> << >>]
NullFile   == [null |-> TRUE, path |-> << >>, err |-> FALSE]

-----------------------------------------------------------------------------
(* Inputs *)

\* event->key: the five codes the hook names, and the release code of P
EventKeys == { BSP_INPUT_SCANCODE_P,
               BSP_INPUT_SCANCODE_LEFTMETA, BSP_INPUT_SCANCODE_RIGHTMETA,
               BSP_INPUT_SCANCODE_LEFTMETA_REL, BSP_INPUT_SCANCODE_RIGHTMETA_REL,
               153 }

\* Events the host delivers: scancode events of every key above, and events
\* of another kind whose key value equals the trigger, a modifier press or a
\* modifier release code
Events == [type : {"SCANCODE"}, key : EventKeys]
          \cup [type : {"KEYBOARD"},
                key  : { BSP_INPUT_SCANCODE_P, BSP_INPUT_SCANCODE_LEFTMETA,
                         BSP_INPUT_SCANCODE_RIGHTMETA_REL }]

NoEvent == [type |-> "none", key |-> 0]

\* Contents of a w x h framebuffer: w*h*3 bytes, all different, starting at
\* seed (so every byte position of the source can be told from every other)
Ramp(w, h, seed) == [k \in 1..(w * h * 3) |-> (seed + k - 1) % 256]

Seeds == {0, 250}

\* The surfaces asp_disp_get_pax_buf can hand out
Surfaces == { [null |-> FALSE, width |-> w, height |-> h, data |-> Ramp(w, h, s)] :
                  w \in 1..MaxDim, h \in 1..MaxDim, s \in Seeds }

\* struct tm values localtime_r can produce (tm_year is years since 1900,
\* tm_mon is 0-based): 2024-03-05 09:07:02 and 1999-12-31 23:59:59
ClockA == [tm_year |-> 124, tm_mon |-> 2, tm_mday |-> 5,
           tm_hour |-> 9, tm_min |-> 7, tm_sec |-> 2]
ClockB == [tm_year |-> 99, tm_mon |-> 11, tm_mday |-> 31,
           tm_hour |-> 23, tm_min |-> 59, tm_sec |-> 59]
Clocks == {ClockA, ClockB}

-----------------------------------------------------------------------------
(* Text and bytes.  Strings and file contents are sequences of byte values *)
(* (character codes).                                                      *)

RECURSIVE Dec(_)
\* printf "%d" of a non-negative int: its decimal digits
Dec(n) == IF n < 10 THEN << 48 + n >>
                    ELSE Dec(n \div 10) \o << 48 + (n % 10) >>

ZeroPad_NoPad(n, w) == Dec(n)

\* printf "%0<w>d" of a non-negative int: at least w digits, zero-padded
ZeroPad(n, w) == LET d == Dec(n)
                 IN  IF Len(d) >= w THEN d
                     ELSE [i \in 1..(w - Len(d)) |-> 48] \o d

\* snprintf(dst, size, ...): at most size-1 characters are stored
Snprintf(size, s) == IF Len(s) <= size - 1 THEN s ELSE SubSeq(s, 1, size - 1)

\* "/sd/screenshot-"
PathPrefix == << 47, 115, 100, 47, 115, 99, 114, 101, 101, 110, 115, 104, 111, 116, 45 >>
\* ".ppm"
PathSuffix == << 46, 112, 112, 109 >>

\* main.c:51-54: the destination path for a broken-down local time
Filename(tm) ==
    Snprintf(64, PathPrefix
                 \o ZeroPad(tm.tm_year + 1900, 4) \o ZeroPad(tm.tm_mon + 1, 2)
                 \o ZeroPad(tm.tm_mday, 2) \o ZeroPad(tm.tm_hour, 2)
                 \o ZeroPad(tm.tm_min, 2) \o ZeroPad(tm.tm_sec, 2)
                 \o PathSuffix)

\* main.c:66: "P6\n%d %d\n255\n"
PpmHeader(w, h) == << 80, 54, 10 >> \o Dec(w) \o << 32 >> \o Dec(h)
                   \o << 10, 50, 53, 53, 10 >>

PixelIndex_NoStride(px, py, w) == (py + px) * 3

\* main.c:72: offset of pixel (x, y) in the source buffer
PixelIndex(px, py, w) == (py * w + px) * 3

\* p[i] of a C array held as a TLA+ sequence
At(p, i) == p.bytes[i + 1]

PixelBytes_NoSwap(p, idx) == << At(p, idx + 0), At(p, idx + 1), At(p, idx + 2) >>

\* main.c:73-79: the three bytes put for the pixel at offset idx (r, g, b)
PixelBytes(p, idx) == << At(p, idx + 2), At(p, idx + 1), At(p, idx + 0) >>

-----------------------------------------------------------------------------
(* The chord detector's tests, main.c:92-116 *)

IsScancodeEvent_Always(e) == TRUE

\* main.c:92
IsScancodeEvent(e) == e.type = "SCANCODE"

IsLogoPress_LeftOnly(scancode) == scancode = BSP_INPUT_SCANCODE_LEFTMETA

\* main.c:99
IsLogoPress(scancode) == \/ scancode = BSP_INPUT_SCANCODE_LEFTMETA
                         \/ scancode = BSP_INPUT_SCANCODE_RIGHTMETA

IsLogoRelease_LeftOnly(scancode) == scancode = BSP_INPUT_SCANCODE_LEFTMETA_REL

\* main.c:105
IsLogoRelease(scancode) == \/ scancode = BSP_INPUT_SCANCODE_LEFTMETA_REL
                           \/ scancode = BSP_INPUT_SCANCODE_RIGHTMETA_REL

IsChord_IgnoresHeld(scancode, held) == scancode = BSP_INPUT_SCANCODE_P

\* main.c:111
IsChord(scancode, held) == scancode = BSP_INPUT_SCANCODE_P /\ held

HeldAfterRelease_Kept == TRUE

\* main.c:106: the flag after a modifier release
HeldAfterRelease == FALSE

HeldAfterSave_Kept == TRUE

\* main.c:115: the flag after a capture
HeldAfterSave == FALSE

ChordReturn_False == FALSE

\* main.c:116: the value returned for the chord's trigger press
ChordReturn == TRUE

-----------------------------------------------------------------------------
(* History variables.  They are written from the event stream alone, by    *)
(* the codes of the modifier keys, and never read by an action.            *)

ModPressEvent(e)   == e.type = "SCANCODE" /\ e.key \in {57435, 57436}
ModReleaseEvent(e) == e.type = "SCANCODE" /\ e.key \in {57563, 57564}
TriggerPressEvent(e) == e.type = "SCANCODE" /\ e.key = 25

LastModAfter(e) == IF ModPressEvent(e) THEN "press"
                   ELSE IF ModReleaseEvent(e) THEN "release"
                   ELSE lastMod

LastArmAfter(e, fires) == IF ModPressEvent(e) THEN "press"
                          ELSE IF ModReleaseEvent(e) THEN "release"
                          ELSE IF fires THEN "capture"
                          ELSE lastArm

-----------------------------------------------------------------------------
\* The card already holds a screenshot taken at ClockB (a 1 x 1 image): a
\* capture at ClockB finds the path taken, a capture at ClockA does not
OldFiles == (Filename(ClockB) :> (PpmHeader(1, 1) \o << 7, 8, 9 >>))

\* The state after the static initialisers, with the wall clock at one of
\* clocks; the clock stands still over the events a behaviour covers
InitAt(clocks) ==
    /\ plugin_ctx = NULL
    /\ hook_id = -1
    /\ logo_key_held = FALSE
    /\ registered = {}
    /\ unregistered = << >>
    /\ next_handle = 0
    /\ pc = "idle"
    /\ event = NoEvent
    /\ held_on_entry = FALSE
    /\ ret = "none"
    /\ buf = NullBuf
    /\ width = 0
    /\ height = 0
    /\ pixels = NullPixels
    /\ filename = << >>
    /\ file = NullFile
    /\ x = 0
    /\ y = 0
    /\ now \in clocks
    /\ fs = OldFiles
    /\ trace = << >>
    /\ lastMod = "none"
    /\ lastArm = "none"
    /\ lastEv = "none"

Init == InitAt(Clocks)

-----------------------------------------------------------------------------
(* Host lifecycle calls *)

\* What asp_plugin_input_hook_register can return: a negative value, or the
\* next free handle
RegisterResults == {-1} \cup (IF next_handle < MaxHandles THEN {next_handle} ELSE {})

InitResult_AlwaysZero(h) == 0

\* main.c:148-154: the value plugin_init returns for registration result h
InitResult(h) == IF h < 0 THEN -1 ELSE 0

\* main.c:140-155
plugin_init ==
    /\ pc = "idle"
    /\ plugin_ctx' = "ctx"
    /\ \E h \in RegisterResults :
          /\ hook_id' = h
          /\ registered' = IF h >= 0 THEN registered \cup {h} ELSE registered
          /\ next_handle' = IF h >= 0 THEN next_handle + 1 ELSE next_handle
          /\ ret' = InitResult(h)
    /\ pc' = "init_returned"
    /\ UNCHANGED << logo_key_held, unregistered, event, held_on_entry, frame,
                    fs, trace, hist, now >>

HookIdAfterCleanup_Kept == hook_id

\* main.c:164: hook_id after the hook was unregistered
HookIdAfterCleanup == -1

HeldAfterCleanup_Reset == FALSE

\* main.c:158-169: plugin_cleanup has no assignment to logo_key_held
HeldAfterCleanup == logo_key_held

\* main.c:158-169
plugin_cleanup ==
    /\ pc = "idle"
    /\ IF hook_id >= 0
          THEN /\ registered' = registered \ {hook_id}
               /\ unregistered' = Append(unregistered, hook_id)
               /\ hook_id' = HookIdAfterCleanup
          ELSE UNCHANGED << registered, unregistered, hook_id >>
    /\ plugin_ctx' = NULL
    /\ logo_key_held' = HeldAfterCleanup
    /\ UNCHANGED << next_handle, pc, event, held_on_entry, ret,
                    frame, fs, trace, hist, now >>

-----------------------------------------------------------------------------
(* input_hook_callback, main.c:88-120.  The host calls it for every input  *)
(* event while a hook of the plugin is registered.                         *)

HookEvent(e) ==
    /\ pc = "idle"
    /\ registered # {}
    /\ event' = e
    /\ held_on_entry' = logo_key_held
    /\ IF ~IsScancodeEvent(e)
          THEN /\ ret' = FALSE
               /\ pc' = "returned"
               /\ trace' = << >>
               /\ lastArm' = LastArmAfter(e, FALSE)
               /\ UNCHANGED logo_key_held
       ELSE IF IsLogoPress(e.key)
          THEN /\ logo_key_held' = TRUE
               /\ ret' = FALSE
               /\ pc' = "returned"
               /\ trace' = << >>
               /\ lastArm' = LastArmAfter(e, FALSE)
       ELSE IF IsLogoRelease(e.key)
          THEN /\ logo_key_held' = HeldAfterRelease
               /\ ret' = FALSE
               /\ pc' = "returned"
               /\ trace' = << >>
               /\ lastArm' = LastArmAfter(e, FALSE)
       ELSE IF IsChord(e.key, logo_key_held)
          THEN /\ pc' = "get_buf"
               /\ trace' = << "save_screenshot" >>
               /\ lastArm' = LastArmAfter(e, TRUE)
               /\ UNCHANGED << logo_key_held, ret >>
          ELSE /\ ret' = FALSE
               /\ pc' = "returned"
               /\ trace' = << >>
               /\ lastArm' = LastArmAfter(e, FALSE)
               /\ UNCHANGED logo_key_held
    /\ lastMod' = LastModAfter(e)
    /\ UNCHANGED << plugin, frame, fs, now, lastEv >>

\* main.c:113-116: save_screenshot has returned
SaveReturn ==
    /\ pc = "save_done"
    /\ logo_key_held' = HeldAfterSave
    /\ ret' = ChordReturn
    /\ pc' = "returned"
    /\ buf' = NullBuf /\ width' = 0 /\ height' = 0 /\ pixels' = NullPixels
    /\ filename' = << >> /\ file' = NullFile /\ x' = 0 /\ y' = 0
    /\ UNCHANGED << plugin, event, held_on_entry, fs, trace, hist, now >>

\* The host takes the returned value and goes on
HostResume ==
    /\ pc \in {"returned", "init_returned"}
    /\ pc' = "idle"
    /\ event' = NoEvent
    /\ held_on_entry' = FALSE
    /\ ret' = "none"
    /\ trace' = << >>
    /\ lastEv' = IF pc = "init_returned" THEN lastEv
                 ELSE IF ModPressEvent(event) THEN "press" ELSE "other"
    /\ UNCHANGED << plugin, logo_key_held, frame, fs, now, lastMod, lastArm >>

-----------------------------------------------------------------------------
(* save_screenshot, main.c:26-85, statement by statement *)

\* main.c:30
BufMissing(b) == b.null

PixelsMissing_Unchecked(p) == FALSE

\* main.c:41
PixelsMissing(p) == p.null

OpenFailed_Unchecked(f) == FALSE

\* main.c:60
OpenFailed(f) == f.null

\* main.c:28-37: asp_disp_get_pax_buf(&buf); the display hands out a surface
\* or leaves buf NULL
GetPaxBuf ==
    /\ pc = "get_buf"
    /\ \E s \in Surfaces \cup {NullBuf} :
          /\ buf' = s
          /\ IF BufMissing(s)
                THEN /\ pc' = "save_done"
                     /\ UNCHANGED << width, height >>
                ELSE /\ pc' = "get_pixels"
                     /\ width' = s.width
                     /\ height' = s.height
          /\ trace' = Append(trace, IF s.null THEN "asp_disp_get_pax_buf=NULL"
                                              ELSE "asp_disp_get_pax_buf")
    /\ UNCHANGED << plugin, logo_key_held, event, held_on_entry, ret, pixels, filename, file,
                    x, y, fs, hist, now >>

\* main.c:40-44: pax_buf_get_pixels(buf) returns the surface's bytes or NULL
GetPixels ==
    /\ pc = "get_pixels"
    /\ \E ok \in BOOLEAN :
          /\ pixels' = IF ok THEN [null |-> FALSE, bytes |-> buf.data] ELSE NullPixels
          /\ pc' = IF PixelsMissing(pixels') THEN "save_done" ELSE "filename"
          /\ trace' = Append(trace, IF ok THEN "pax_buf_get_pixels"
                                          ELSE "pax_buf_get_pixels=NULL")
    /\ UNCHANGED << plugin, logo_key_held, event, held_on_entry, ret, buf, width, height,
                    filename, file, x, y, fs, hist, now >>

\* main.c:47-54: time, localtime_r, snprintf
MakeFilename ==
    /\ pc = "filename"
    /\ filename' = Filename(now)
    /\ pc' = "fopen"
    /\ trace' = Append(trace, "time")
    /\ UNCHANGED << plugin, logo_key_held, event, held_on_entry, ret, buf, width, height,
                    pixels, file, x, y, fs, hist, now >>

\* fopen(path, "wb") that succeeds: the file exists and is empty
Truncated(files, path) ==
    [p \in (DOMAIN files) \cup {path} |-> IF p = path THEN << >> ELSE files[p]]

\* main.c:59-63: fopen succeeds or returns NULL
Fopen ==
    /\ pc = "fopen"
    /\ \E ok \in BOOLEAN :
          /\ IF ok
                THEN /\ fs' = Truncated(fs, filename)
                     /\ file' = [null |-> FALSE, path |-> filename, err |-> FALSE]
                     /\ trace' = Append(trace, "fopen")
                ELSE /\ file' = NullFile
                     /\ trace' = Append(trace, "fopen=NULL")
                     /\ UNCHANGED fs
          /\ pc' = IF OpenFailed(file') THEN "save_done" ELSE "header"
    /\ UNCHANGED << plugin, logo_key_held, event, held_on_entry, ret, buf, width, height,
                    pixels, filename, x, y, hist, now >>

\* A write of bytes to stream f of which the first n reach the file; a
\* write that falls short leaves the stream in error, and a stream in error
\* takes no more bytes
Written(files, f, bytes, n) ==
    [files EXCEPT ![f.path] = @ \o SubSeq(bytes, 1, n)]

WriteCounts(f, bytes) == IF f.err THEN {0} ELSE 0..Len(bytes)

\* the position of the loops of main.c:70-71 after one more pixel
AfterPixel(px, py, w) == IF px + 1 < w THEN << px + 1, py >> ELSE << 0, py + 1 >>

\* main.c:66: fprintf of the header, then the loops start
WriteHeader ==
    /\ pc = "header"
    /\ LET hdr == PpmHeader(width, height)
       IN  \E n \in WriteCounts(file, hdr) \cap {0, Len(hdr)} :
              /\ fs' = Written(fs, file, hdr, n)
              /\ file' = [file EXCEPT !.err = @ \/ n < Len(hdr)]
    /\ x' = 0
    /\ y' = 0
    /\ pc' = IF 0 < height /\ 0 < width THEN "loop" ELSE "fclose"
    /\ trace' = Append(trace, "fprintf")
    /\ UNCHANGED << plugin, logo_key_held, event, held_on_entry, ret, buf, width, height,
                    pixels, filename, hist, now >>

\* main.c:72-79: one pass of the loop body, then x++ (and y++ at a row's end)
WritePixel ==
    /\ pc = "loop"
    /\ LET idx   == PixelIndex(x, y, width)
           bytes == PixelBytes(pixels, idx)
       IN  \E n \in WriteCounts(file, bytes) :
              /\ fs' = Written(fs, file, bytes, n)
              /\ file' = [file EXCEPT !.err = @ \/ n < Len(bytes)]
    /\ LET pos == AfterPixel(x, y, width)
       IN  /\ x' = pos[1]
           /\ y' = pos[2]
           /\ pc' = IF pos[2] < height THEN "loop" ELSE "fclose"
    /\ trace' = trace \o << "fputc", "fputc", "fputc" >>
    /\ UNCHANGED << plugin, logo_key_held, event, held_on_entry, ret, buf, width, height,
                    pixels, filename, hist, now >>

\* main.c:83-85
Fclose ==
    /\ pc = "fclose"
    /\ file' = NullFile
    /\ pc' = "save_done"
    /\ trace' = Append(trace, IF file.err THEN "fclose_err" ELSE "fclose")
    /\ UNCHANGED << plugin, logo_key_held, event, held_on_entry, ret, buf, width, height,
                    pixels, filename, x, y, fs, hist, now >>

-----------------------------------------------------------------------------
Next ==
    \/ plugin_init
    \/ plugin_cleanup
    \/ \E e \in Events : HookEvent(e)
    \/ GetPaxBuf
    \/ GetPixels
    \/ MakeFilename
    \/ Fopen
    \/ WriteHeader
    \/ WritePixel
    \/ Fclose
    \/ SaveReturn
    \/ HostResume

Spec == Init /\ [][Next]_vars

-----------------------------------------------------------------------------
(* What the claims speak of *)

\* how often call appears in the calls of the invocation in progress
Calls(call) == Cardinality({i \in DOMAIN trace : trace[i] = call})

\* the event in progress is the chord: a trigger press that found the flag set
ChordActivation == TriggerPressEvent(event) /\ held_on_entry

\* files the invocation in progress created or truncated
FilesProduced == Calls("fopen")

\* the capture stopped at a missing surface, missing pixels or a failed open
CaptureAborted == \/ Calls("asp_disp_get_pax_buf=NULL") > 0
                  \/ Calls("pax_buf_get_pixels=NULL") > 0
                  \/ Calls("fopen=NULL") > 0

\* C1 as stated: when the callback returns it has produced exactly one image
\* file if the event was a chord activation, and none otherwise
C1_ExactlyOneFilePerChord ==
    pc = "returned" => FilesProduced = (IF ChordActivation THEN 1 ELSE 0)

\* C1 amended: when the callback returns it has produced exactly one image
\* file if the event was a chord activation whose capture was not aborted
\* (surface, pixels and destination were all obtained), and none otherwise
C1_OneFilePerCompletedChord ==
    pc = "returned" =>
        FilesProduced = (IF ChordActivation /\ ~CaptureAborted THEN 1 ELSE 0)

C1_Witness ==
    pc = "returned" /\ ChordActivation /\ ~CaptureAborted /\ FilesProduced = 1

\* C2 (no false trigger): save_screenshot is invoked only for a trigger press
\* whose last preceding modifier event is a press, so a trigger press with no
\* modifier press before it, or with a modifier release since, invokes nothing
C2_NoFalseTrigger ==
    /\ Calls("save_screenshot") > 0 => TriggerPressEvent(event) /\ lastMod = "press"
    /\ pc # "idle" /\ TriggerPressEvent(event) /\ lastMod # "press" => trace = << >>

C2_Witness ==
    /\ pc = "returned" /\ TriggerPressEvent(event) /\ lastMod = "none"
    /\ trace = << >> /\ ret = FALSE

\* C3 (chord fires once): when the callback returns from a trigger press that
\* came right after a modifier press, save_screenshot was invoked exactly once
\* during it and logo_key_held is false
C3_ChordFiresOnce ==
    pc = "returned" /\ TriggerPressEvent(event) /\ lastEv = "press" =>
        Calls("save_screenshot") = 1 /\ logo_key_held = FALSE

C3_Witness ==
    /\ pc = "returned" /\ TriggerPressEvent(event) /\ lastEv = "press"
    /\ Calls("save_screenshot") = 1 /\ Calls("fclose") = 1

\* C4 (repeat requires re-press): whenever a capture starts, the last of the
\* modifier presses, modifier releases and captures before it is a modifier
\* press; so no capture follows a capture without a modifier press between
C4_RepeatRequiresRepress ==
    [][ Calls("save_screenshot") = 0 /\ Calls("save_screenshot")' > 0
            => lastArm = "press" ]_vars

\* a repeated trigger press right after a capture has returned without one
C4_Witness ==
    /\ pc = "returned" /\ TriggerPressEvent(event) /\ lastArm = "capture"
    /\ lastEv = "other" /\ trace = << >>

\* C5 (release clears state): a trigger press whose last preceding modifier
\* event is a release invokes no capture and is not consumed
C5_ReleaseClearsState ==
    pc # "idle" /\ TriggerPressEvent(event) /\ lastMod = "release" =>
        /\ Calls("save_screenshot") = 0
        /\ held_on_entry = FALSE
        /\ pc = "returned" /\ ret = FALSE

C5_Witness ==
    /\ pc = "returned" /\ TriggerPressEvent(event) /\ lastMod = "release"
    /\ lastArm = "release" /\ Calls("save_screenshot") = 0

\* C6 (non-scancode events ignored): the callback invoked with an event of
\* another kind than scancode, whatever its key and the state, leaves
\* logo_key_held and the files as they are, calls nothing and returns false
C6_NonScancodeIgnored ==
    [][ pc = "idle" /\ event'.type \notin {"SCANCODE", "none"} =>
            /\ logo_key_held' = logo_key_held
            /\ pc' = "returned" /\ ret' = FALSE
            /\ trace' = << >>
            /\ fs' = fs ]_vars

\* an event of another kind carrying the trigger code, arriving with the flag set
C6_Witness ==
    /\ pc = "returned" /\ event = [type |-> "KEYBOARD", key |-> 25]
    /\ held_on_entry /\ logo_key_held /\ ret = FALSE /\ trace = << >>

\* C7 (consumption semantics): the callback returns true exactly for a
\* scancode trigger press that found logo_key_held set, and false otherwise
C7_ConsumptionSemantics ==
    pc = "returned" =>
        /\ ret \in BOOLEAN
        /\ ret = TRUE <=> ChordActivation

C7_Witness ==
    pc = "returned" /\ ChordActivation /\ ret = TRUE /\ lastEv = "press"

\* C8 (capture failure does not leak): a chord activation whose capture
\* aborted still returns true and leaves logo_key_held false
C8_FailureDoesNotLeak ==
    pc = "returned" /\ ChordActivation /\ CaptureAborted =>
        ret = TRUE /\ logo_key_held = FALSE

C8_Witness ==
    /\ pc = "returned" /\ ChordActivation /\ Calls("fopen=NULL") = 1
    /\ ret = TRUE /\ logo_key_held = FALSE

\* calls of the invocation in progress that open, write or close a file
FileCalls == {i \in DOMAIN trace :
                 trace[i] \in {"fopen", "fopen=NULL", "fprintf", "fputc",
                               "fclose", "fclose_err"}}

\* the capture met a missing surface or a missing pixel buffer
NoSurfaceOrPixels == \/ Calls("asp_disp_get_pax_buf=NULL") > 0
                     \/ Calls("pax_buf_get_pixels=NULL") > 0

\* C9 (failure leaves no file): once the display has returned no surface or
\* no pixel buffer, save_screenshot makes no file call and holds no stream,
\* and the step that meets the failure ends it with every file as it was
C9_FailureLeavesNoFile ==
    /\ [](NoSurfaceOrPixels =>
              FileCalls = {} /\ file.null /\ pc \in {"save_done", "returned"})
    /\ [][ NoSurfaceOrPixels' /\ ~NoSurfaceOrPixels =>
              fs' = fs /\ pc' = "save_done" /\ FileCalls = {} ]_vars

C9_Witness ==
    /\ pc = "save_done" /\ Calls("pax_buf_get_pixels=NULL") = 1
    /\ ~buf.null /\ FileCalls = {} /\ fs = OldFiles

-----------------------------------------------------------------------------
(* Reading a PPM (P6) file back *)

RECURSIVE DigitsEnd(_, _)
\* the first position from i on that holds no decimal digit
DigitsEnd(c, i) == IF i <= Len(c) /\ c[i] \in 48..57 THEN DigitsEnd(c, i + 1) ELSE i

RECURSIVE DecValue(_)
\* the number a sequence of decimal digits denotes
DecValue(d) == IF d = << >> THEN 0
               ELSE 10 * DecValue(SubSeq(d, 1, Len(d) - 1)) + (d[Len(d)] - 48)

\* a number field from i up to (not including) position j, ended by byte sep,
\* without leading zeros
Field(c, i, j, sep) == /\ j > i /\ j <= Len(c) /\ c[j] = sep
                       /\ (c[i] = 48 => j = i + 1)

\* "P6\n<width> <height>\n<maxval>\n" and the payload after it
ParsePpm(c) ==
    LET wEnd == DigitsEnd(c, 4)
        hEnd == DigitsEnd(c, wEnd + 1)
        mEnd == DigitsEnd(c, hEnd + 1)
    IN  [ ok      |-> /\ Len(c) >= 3 /\ SubSeq(c, 1, 3) = << 80, 54, 10 >>
                      /\ Field(c, 4, wEnd, 32)
                      /\ Field(c, wEnd + 1, hEnd, 10)
                      /\ Field(c, hEnd + 1, mEnd, 10),
          width   |-> DecValue(SubSeq(c, 4, wEnd - 1)),
          height  |-> DecValue(SubSeq(c, wEnd + 1, hEnd - 1)),
          maxval  |-> DecValue(SubSeq(c, hEnd + 1, mEnd - 1)),
          payload |-> SubSeq(c, mEnd + 1, Len(c)) ]

\* save_screenshot has come to its end with every write taken
SaveSucceeded == pc = "save_done" /\ trace # << >> /\ trace[Len(trace)] = "fclose"

\* C10 (encoder round-trip): after a successful save_screenshot of a W x H
\* surface the file at the computed path reads back as P6, W, H, 255 and a
\* payload of W*H*3 bytes whose bytes 3i, 3i+1, 3i+2 are the source's bytes
\* 3i+2, 3i+1, 3i, for every pixel i in row-major order
C10_EncoderRoundTrip ==
    SaveSucceeded =>
        /\ filename \in DOMAIN fs
        /\ LET img == ParsePpm(fs[filename])
               W   == buf.width
               H   == buf.height
               src == buf.data
           IN  /\ img.ok
               /\ img.width = W /\ img.height = H /\ img.maxval = 255
               /\ Len(img.payload) = W * H * 3
               /\ \A i \in 0..(W * H - 1) :
                     /\ img.payload[i * 3 + 0 + 1] = src[i * 3 + 2 + 1]
                     /\ img.payload[i * 3 + 1 + 1] = src[i * 3 + 1 + 1]
                     /\ img.payload[i * 3 + 2 + 1] = src[i * 3 + 0 + 1]

C10_Witness ==
    /\ SaveSucceeded /\ buf.width = 2 /\ buf.height = 2 /\ buf.data[1] = 250
    /\ Len(fs[filename]) = 23

-----------------------------------------------------------------------------
(* The destination path over a range of clock values: the plugin is        *)
(* initialised, the chord is pressed and save_screenshot runs up to fopen.  *)

\* local times with a 4-digit year: the ends and one inner value of every
\* field of struct tm
WideClocks == [ tm_year : {-900, 99, 124, 8099}, tm_mon : {0, 2, 11},
                tm_mday : {1, 5, 31}, tm_hour : {0, 9, 23},
                tm_min : {0, 7, 59}, tm_sec : {0, 2, 59} ]

InitFilename == InitAt(WideClocks)

NextFilename ==
    \/ plugin_init
    \/ \E e \in [type : {"SCANCODE"},
                 key  : {BSP_INPUT_SCANCODE_RIGHTMETA, BSP_INPUT_SCANCODE_P}] :
          HookEvent(e)
    \/ HostResume
    \/ GetPaxBuf
    \/ GetPixels
    \/ MakeFilename

SpecFilename == InitFilename /\ [][NextFilename]_vars

\* the decimal number in characters i..j of path p, all of them digits
PathField(p, i, j) ==
    IF \A k \in i..j : p[k] \in 48..57 THEN DecValue(SubSeq(p, i, j)) ELSE -1

\* C11 (filename format): for a clock with a 4-digit year the path computed
\* by save_screenshot is "/sd/screenshot-", then year (4 digits), month
\* (1-based), day, hour, minute, second (2 digits each), then ".ppm"; the
\* clock 2024-03-05 09:07:02 gives a path ending "20240305090702.ppm"
C11_FilenameFormat ==
    pc = "fopen" =>
        /\ Len(filename) = 33
        /\ SubSeq(filename, 1, 15)
              = << 47, 115, 100, 47, 115, 99, 114, 101, 101, 110, 115, 104, 111, 116, 45 >>
        /\ PathField(filename, 16, 19) = now.tm_year + 1900
        /\ PathField(filename, 20, 21) = now.tm_mon + 1
        /\ PathField(filename, 22, 23) = now.tm_mday
        /\ PathField(filename, 24, 25) = now.tm_hour
        /\ PathField(filename, 26, 27) = now.tm_min
        /\ PathField(filename, 28, 29) = now.tm_sec
        /\ SubSeq(filename, 30, 33) = << 46, 112, 112, 109 >>
        /\ now = ClockA =>
              SubSeq(filename, 16, 33)
                 = << 50, 48, 50, 52, 48, 51, 48, 53, 48, 57, 48, 55, 48, 50,
                      46, 112, 112, 109 >>

C11_Witness ==
    /\ pc = "fopen" /\ now = ClockA
    /\ SubSeq(filename, 16, 29)
          = << 50, 48, 50, 52, 48, 51, 48, 53, 48, 57, 48, 55, 48, 50 >>

-----------------------------------------------------------------------------
(* Lifecycle *)

C13_CleanupLeavesNoHook ==
    [][ pc = "idle" /\ pc' = "idle" => registered' = {} ]_vars

-----------------------------------------------------------------------------
(* Order of the steps of one capture *)

\* the place of a call in the order of save_screenshot's steps: acquire
\* surface, acquire pixel buffer, compute path, open, header, payload, close
StepOf(call) ==
    CASE call = "save_screenshot" -> 0
      [] call \in {"asp_disp_get_pax_buf", "asp_disp_get_pax_buf=NULL"} -> 1
      [] call \in {"pax_buf_get_pixels", "pax_buf_get_pixels=NULL"} -> 2
      [] call = "time" -> 3
      [] call \in {"fopen", "fopen=NULL"} -> 4
      [] call = "fprintf" -> 5
      [] call = "fputc" -> 6
      [] call \in {"fclose", "fclose_err"} -> 7

\* calls that end the capture: a failed acquisition or open
FailedCalls == {"asp_disp_get_pax_buf=NULL", "pax_buf_get_pixels=NULL", "fopen=NULL"}

\* the calls made so far are an initial part of the order, payload calls
\* repeating, and nothing follows a failed call or the close
StepsInOrder ==
    /\ trace # << >> => trace[1] = "save_screenshot"
    /\ \A i \in 1..(Len(trace) - 1) :
          /\ \/ StepOf(trace[i + 1]) = StepOf(trace[i]) + 1
             \/ StepOf(trace[i + 1]) = 6 /\ StepOf(trace[i]) = 6
          /\ trace[i] \notin FailedCalls

\* while the stream takes bytes, the file holds the header and then the
\* pixels of the surface in row-major order, up to the loop's position
PayloadRowMajor ==
    pc = "loop" /\ ~file.err =>
        LET c    == fs[file.path]
            hlen == Len(PpmHeader(buf.width, buf.height))
            done == y * buf.width + x
        IN  /\ Len(c) = hlen + 3 * done
            /\ \A i \in 0..(done - 1) : c[hlen + 3 * i + 1] = buf.data[3 * i + 2 + 1]

\* C14 as stated: every capture opens exactly one file and makes its calls
\* in the order surface, pixels, path, open, header, payload, close
C14_ExactlyOneOpenInOrder ==
    /\ StepsInOrder
    /\ pc = "save_done" => Calls("fopen") = 1

\* C14 amended: the calls of a capture are an initial part of the order
\* surface, pixels, path, open (truncating), header, payload (row-major), close, ended
\* early only by a failed acquisition or open; there is at most one open
\* call, and a capture that got its surface, pixels and file makes exactly
\* one open, one header write, 3*W*H payload writes and one close
C14_StepsInOrder ==
    /\ StepsInOrder
    /\ PayloadRowMajor
    /\ pc = "header" => fs[file.path] = << >>
    /\ Calls("fopen") + Calls("fopen=NULL") <= 1
    /\ pc = "save_done" /\ ~CaptureAborted =>
          /\ Calls("fopen") = 1 /\ Calls("fprintf") = 1
          /\ Calls("fputc") = 3 * buf.width * buf.height
          /\ Calls("fclose") + Calls("fclose_err") = 1
          /\ StepOf(trace[Len(trace)]) = 7

C14_Witness ==
    /\ pc = "save_done" /\ buf.width = 2 /\ buf.height = 2
    /\ Calls("fputc") = 12 /\ trace[Len(trace)] = "fclose"
    /\ Len(trace) = 19

-----------------------------------------------------------------------------
(* Failure to open the destination *)

\* C15: when fopen returns NULL the capture is over: no header write, no
\* payload write and no close is made, no stream is held, and neither the
\* failed open nor anything after it in the capture changes any file
C15_OpenFailureAborts ==
    /\ [](Calls("fopen=NULL") > 0 =>
             /\ pc \in {"save_done", "returned"}
             /\ trace[Len(trace)] = "fopen=NULL"
             /\ Calls("fprintf") = 0 /\ Calls("fputc") = 0
             /\ Calls("fclose") = 0 /\ Calls("fclose_err") = 0
             /\ file.null)
    /\ [][ (Calls("fopen=NULL") > 0)' => fs' = fs ]_vars

C15_Witness ==
    /\ pc = "returned" /\ Calls("fopen=NULL") = 1
    /\ now = ClockB /\ fs = OldFiles /\ ~logo_key_held

-----------------------------------------------------------------------------
(* Failure of a write after the destination was opened *)

\* C16: a capture stops at its first I/O failure: once a header or payload
\* write has failed on the open stream, the capture makes no further write
C16_StopsAtFirstIOFailure ==
    [][ ~file.null /\ file.err /\ pc \in {"loop", "fclose"} =>
            (Calls("fputc"))' = Calls("fputc") ]_vars

-----------------------------------------------------------------------------
(* The display drawing while a capture is under way *)

\* main.c:40, 73-75: pixels is a pointer into the display's live buffer, not
\* a copy; the display subsystem may draw into it between any two statements
\* of save_screenshot.  buf keeps the contents handed out at main.c:28.
DisplayDraw ==
    /\ pc \in {"filename", "fopen", "header", "loop", "fclose"}
    /\ ~pixels.null
    /\ \E s \in Seeds :
          /\ Ramp(width, height, s) # pixels.bytes
          /\ pixels' = [pixels EXCEPT !.bytes = Ramp(width, height, s)]
    /\ UNCHANGED << plugin, logo_key_held, pc, event, held_on_entry, ret, buf, width,
                    height, filename, file, x, y, fs, trace, hist, now >>

NextDisplay == Next \/ DisplayDraw

SpecDisplay == Init /\ [][NextDisplay]_vars

\* the payload save_screenshot makes of source bytes src: every pixel's
\* three bytes in reverse order
SwapBgr(src) == [k \in 1..Len(src) |-> src[3 * ((k - 1) \div 3) + (3 - ((k - 1) % 3))]]

\* C17 (snapshot consistency): the payload of a successfully written file is
\* made of the framebuffer contents handed out when the key press was
\* handled, whatever the display draws while the file is being written
C17_SnapshotConsistency ==
    SaveSucceeded => ParsePpm(fs[filename]).payload = SwapBgr(buf.data)

-----------------------------------------------------------------------------
(* The modifier flag as a function of the event stream *)

\* C18: whenever the callback is not running, logo_key_held is true exactly
\* when the last scancode event that was a modifier press, a modifier
\* release or a capture-firing trigger press was a modifier press, whichever
\* of the two modifier keys it came from; an event that is none of the three
\* leaves logo_key_held as it was
C18_HeldIffLastArmPress ==
    /\ [](pc \in {"idle", "returned", "init_returned"} =>
             (logo_key_held <=> lastArm = "press"))
    /\ [][ /\ pc = "idle" /\ pc' = "returned"
           /\ ~ModPressEvent(event') /\ ~ModReleaseEvent(event')
           => logo_key_held' = logo_key_held ]_vars

\* the left modifier released right after a modifier press, the flag dropping
C18_Witness ==
    /\ pc = "returned" /\ lastEv = "press" /\ lastArm = "release"
    /\ event = [type |-> "SCANCODE", key |-> BSP_INPUT_SCANCODE_LEFTMETA_REL]
    /\ held_on_entry /\ ~logo_key_held

-----------------------------------------------------------------------------
(* Handles passed to asp_plugin_input_hook_unregister *)

\* C19: over any sequence of plugin_init and plugin_cleanup calls, every
\* handle plugin_cleanup unregisters is non-negative, was returned by a
\* successful registration, is still registered at the call, and is
\* unregistered only once
C19_UnregisterOnlyOwnHandle ==
    /\ [](\A i \in 1..Len(unregistered) :
             /\ unregistered[i] >= 0
             /\ unregistered[i] < next_handle
             /\ \A j \in 1..Len(unregistered) : unregistered[j] = unregistered[i] => j = i)
    /\ [][ unregistered' # unregistered =>
             /\ Len(unregistered') = Len(unregistered) + 1
             /\ SubSeq(unregistered', 1, Len(unregistered)) = unregistered
             /\ unregistered'[Len(unregistered')] \in registered
             /\ unregistered'[Len(unregistered')] \notin registered' ]_vars

\* two hooks registered and unregistered in turn, then a cleanup with none held
C19_Witness ==
    /\ unregistered = << 0, 1 >> /\ registered = {} /\ hook_id = -1
    /\ plugin_ctx = NULL /\ pc = "idle"

\* C20: plugin_init and plugin_cleanup leave logo_key_held as it is, so a
\* modifier press taken before a cleanup still arms the chord after the next
\* plugin_init
C20_LifecycleKeepsHeld ==
    [][ /\ pc = "idle"
        /\ \/ pc' = "init_returned"
           \/ pc' = "idle" /\ plugin_ctx' = NULL
        => logo_key_held' = logo_key_held ]_vars

\* init, modifier press, cleanup, init: the hook is registered anew with the
\* flag still set
C20_Witness ==
    /\ pc = "init_returned" /\ ret = 0 /\ hook_id = 1 /\ registered = {1}
    /\ unregistered = << 0 >> /\ logo_key_held /\ lastArm = "press"

====
